---- MODULE Spec2Model ----
(***************************************************************************)
(* LocoIno (GCA185-LocoIO/LocoIno.cpp): a 16 channel LocoNet I/O module.   *)
(* The model follows the sketch: setup() loads the 51 byte SV table from   *)
(* EEPROM, loop() receives at most one LocoNet packet, hands it to the     *)
(* switch request callback or to processPeerPacket(), and then polls the   *)
(* pins configured as inputs.                                              *)
(***************************************************************************)
EXTENDS Integers, Sequences, FiniteSets, TLC

VARIABLES
    svtable,      \* SV_DATA svtable: the 51 bytes svtable.data[0..50]
    eeprom,       \* the EEPROM bytes 0..MaxReg
    pinDir,       \* hardware direction of each Arduino pin (pinMode)
    pinOut,       \* level last written to each Arduino pin (digitalWrite)
    level,        \* level the outside world applies to each Arduino pin
    LnPacket,     \* the received packet, as the first half of loop() leaves it
    rx,           \* the same packet as LocoNet.receive() delivered it
    tx,           \* packets handed to LocoNet.send() by the half of loop() just run
    pinWrites,    \* digitalWrite() calls of the first half of loop(), in order
    pc,           \* "setup", "loop" (before receive) or "poll" (before the input scan)
    peerResult,   \* where processPeerPacket() returned in the first half of loop()
    lastWritten,  \* <<register, value>> of the last accepted SV write to each register 1..50
    lastSeen,     \* per pin: the level the last input scan read first for it, as a
                  \* set, empty if the scan passed the pin over; <<>> before the
                  \* first scan
    bootValid,    \* whether setup() found VERSION in the EEPROM ("unset" before setup())
    bootLevel,    \* per pin loaded as an input: the outside level when setup() ran,
                  \* as a set, kept until the first input scan has run
    codecIn,      \* codec check: the 8 payload bytes before packing
    codecWire,    \* codec check: the packed frame
    codecOut      \* codec check: the frame after unpacking

vars == <<svtable, eeprom, pinDir, pinOut, level, LnPacket, rx, tx, pinWrites,
          pc, peerResult, lastWritten, lastSeen, bootValid, bootLevel,
          codecIn, codecWire, codecOut>>

mainVars == <<svtable, eeprom, pinDir, pinOut, level, LnPacket, rx, tx, pinWrites,
              pc, peerResult, lastWritten, lastSeen, bootValid, bootLevel>>

\* what the program does not keep: the records of what was read and decided
history == <<lastSeen, bootValid, bootLevel>>

codecVars == <<codecIn, codecWire, codecOut>>

-----------------------------------------------------------------------------
(* Program constants *)

VERSION == 101

DefaultAddrLow == 81

DefaultAddrHigh == 1

NumPins == 16

TableSize == 51

ProgrammingAddr == 127

pinMap == <<2, 3, 4, 5, 6, 9, 10, 11, 12, 13, 14, 15, 16, 17, 18, 19>>

\* pinMap[n] of the C array, n = 0..15
PinOf(n) == pinMap[n + 1]

HwPins == {PinOf(n) : n \in 0..(NumPins - 1)}

\* offsets of pincfg[n].cnfg, .value1, .value2 in svtable.data
CnfgAt(n) == 3 + 3 * n
Value1At(n) == 3 + 3 * n + 1
Value2At(n) == 3 + 3 * n + 2

HIGH == 1

LOW == 0

-----------------------------------------------------------------------------
(* Bounds of the model *)

\* the outside level changes only on pins 0..MaxTogglePin
MaxTogglePin == 0

TogglePins == 0..MaxTogglePin

\* the EEPROM is modelled up to byte MaxReg; the SV writes received name registers
\* up to TableSize, the first one beyond the table
MaxReg == 52

-----------------------------------------------------------------------------
(* Arduino bit macros on bytes *)

Pow2(b) == 2 ^ b

bitRead(x, b) == (x \div Pow2(b)) % 2

bitWrite(x, b, v) == x - bitRead(x, b) * Pow2(b) + (IF v # 0 THEN Pow2(b) ELSE 0)

bitClear(x, b) == x - bitRead(x, b) * Pow2(b)

-----------------------------------------------------------------------------
(* Packets *)

NoPacket == [command |-> "NULL"]

\* a peer transfer frame as it travels on the bus: every byte after the opcode is
\* 7 bit, the high bits of cmd, reg, and val travel in pxct1
MkPeer(src, dstl, d5, cmd, reg, val) ==
    [command |-> "OPC_PEER_XFER", src |-> src, dst_l |-> dstl, dst_h |-> 1,
     pxct1 |-> bitRead(cmd, 7) + 2 * bitRead(reg, 7) + 8 * bitRead(val, 7),
     d1 |-> cmd % 128, d2 |-> reg % 128, d3 |-> 0, d4 |-> val % 128,
     pxct2 |-> 0, d5 |-> d5, d6 |-> 0, d7 |-> 0, d8 |-> 0]

\* <<register, value>> of the SV write frames received
WriteCases == {<<0, 144>>, <<1, 144>>, <<3, 0>>, <<5, 144>>, <<TableSize, 144>>}

\* start registers of the SV read frames received
ReadRegs == {0, 1, 3, 5, 48, 49, 255}

\* <<dst_l, d5>> of the frames that probe the address match
AddrCases == {<<0, 0>>, <<127, 1>>, <<81, 1>>, <<16, 1>>, <<0, 1>>, <<127, 0>>,
              <<81, 0>>, <<5, 5>>}

PeerFrames ==
    {MkPeer(80, 0, 0, 1, w[1], w[2]) : w \in WriteCases}
    \cup {MkPeer(80, 0, 0, 2, r, 0) : r \in ReadRegs}
    \cup {MkPeer(80, a[1], a[2], 2, 0, 0) : a \in AddrCases}
    \cup {MkPeer(80, 0, 0, 3, 5, 16), MkPeer(80, 0, 0, 129, 5, 16)}
    \cup {[MkPeer(80, 0, 0, 2, 0, 0) EXCEPT !.command = "OPC_OTHER"]}

\* switch requests as LocoNet.processSwitchSensorMessage() hands them to the
\* callback: Output is 0 or 16, Direction is 0 or 32
SwitchRequests ==
    [command : {"OPC_SW_REQ"}, Address : {8, 256}, Output : {0, 16}, Direction : {0, 32}]

\* sensor, switch report and switch state messages: the callbacks only print
InfoMessages == {[command |-> c] : c \in {"OPC_INPUT_REP", "OPC_SW_REP", "OPC_SW_STATE"}}

-----------------------------------------------------------------------------
(* EEPROM contents at power up *)

\* <<cnfg, value1, value2>>: input; pulse, polarity 0/1; continuous hardware
\* reset, polarity 0/1; continuous software reset, polarity 0/1
Pin0Profiles == {<<31, 7, 16>>, <<136, 7, 0>>, <<136, 7, 32>>, <<132, 7, 0>>,
                 <<132, 7, 32>>, <<128, 7, 0>>, <<128, 7, 32>>}

Pin1Profiles == {<<31, 7, 0>>, <<136, 7, 32>>}

\* bytes from 9 on are erased (255)
EepromImage(ver, lo, hi, p0, p1) ==
    [a \in 0..MaxReg |->
        IF a = 0 THEN ver
        ELSE IF a = 1 THEN lo
        ELSE IF a = 2 THEN hi
        ELSE IF a \in 3..5 THEN p0[a - 2]
        ELSE IF a \in 6..8 THEN p1[a - 5]
        ELSE 255]

EepromImages ==
    {EepromImage(VERSION, DefaultAddrLow, DefaultAddrHigh, p0, p1) :
        p0 \in Pin0Profiles, p1 \in Pin1Profiles}
    \cup {EepromImage(255, 255, 255, <<31, 7, 16>>, <<136, 7, 32>>)}

-----------------------------------------------------------------------------
(* The peer transfer codec *)

\* UnpackHighBits leaving payload byte 1 as it came over the wire
UnpackHighBits_NoD1(p) ==
    [p EXCEPT !.d2 = bitWrite(p.d2, 7, bitRead(p.pxct1, 1)),
              !.d3 = bitWrite(p.d3, 7, bitRead(p.pxct1, 2)),
              !.d4 = bitWrite(p.d4, 7, bitRead(p.pxct1, 3)),
              !.d5 = bitWrite(p.d5, 7, bitRead(p.pxct2, 0)),
              !.d6 = bitWrite(p.d6, 7, bitRead(p.pxct2, 1)),
              !.d7 = bitWrite(p.d7, 7, bitRead(p.pxct2, 2)),
              !.d8 = bitWrite(p.d8, 7, bitRead(p.pxct2, 3))]

\* processPeerPacket(): "Set high bits in right position" of the received frame
UnpackHighBits(p) ==
    [p EXCEPT !.d1 = bitWrite(p.d1, 7, bitRead(p.pxct1, 0)),
              !.d2 = bitWrite(p.d2, 7, bitRead(p.pxct1, 1)),
              !.d3 = bitWrite(p.d3, 7, bitRead(p.pxct1, 2)),
              !.d4 = bitWrite(p.d4, 7, bitRead(p.pxct1, 3)),
              !.d5 = bitWrite(p.d5, 7, bitRead(p.pxct2, 0)),
              !.d6 = bitWrite(p.d6, 7, bitRead(p.pxct2, 1)),
              !.d7 = bitWrite(p.d7, 7, bitRead(p.pxct2, 2)),
              !.d8 = bitWrite(p.d8, 7, bitRead(p.pxct2, 3))]

\* PackHighBits with the high bit of d4 written to bit 2 of pxct1, where the
\* high bit of d3 belongs
PackHighBits_Slip(t) ==
    [t EXCEPT !.pxct1 = bitWrite(bitWrite(bitWrite(bitWrite(t.pxct1,
                            0, bitRead(t.d1, 7)),
                            1, bitRead(t.d2, 7)),
                            2, bitRead(t.d3, 7)),
                            2, bitRead(t.d4, 7)),
              !.d1 = bitClear(t.d1, 7),
              !.d2 = bitClear(t.d2, 7),
              !.d3 = bitClear(t.d3, 7),
              !.d4 = bitClear(t.d4, 7),
              !.pxct2 = bitWrite(bitWrite(bitWrite(bitWrite(t.pxct2,
                            0, bitRead(t.d5, 7)),
                            1, bitRead(t.d6, 7)),
                            2, bitRead(t.d7, 7)),
                            3, bitRead(t.d8, 7)),
              !.d5 = bitClear(t.d5, 7),
              !.d6 = bitClear(t.d6, 7),
              !.d7 = bitClear(t.d7, 7),
              !.d8 = bitClear(t.d8, 7)]

\* sendPeerPacket(): "Set high bits in right position" of the frame to send
PackHighBits(t) ==
    [t EXCEPT !.pxct1 = bitWrite(bitWrite(bitWrite(bitWrite(t.pxct1,
                            0, bitRead(t.d1, 7)),
                            1, bitRead(t.d2, 7)),
                            2, bitRead(t.d3, 7)),
                            3, bitRead(t.d4, 7)),
              !.d1 = bitClear(t.d1, 7),
              !.d2 = bitClear(t.d2, 7),
              !.d3 = bitClear(t.d3, 7),
              !.d4 = bitClear(t.d4, 7),
              !.pxct2 = bitWrite(bitWrite(bitWrite(bitWrite(t.pxct2,
                            0, bitRead(t.d5, 7)),
                            1, bitRead(t.d6, 7)),
                            2, bitRead(t.d7, 7)),
                            3, bitRead(t.d8, 7)),
              !.d5 = bitClear(t.d5, 7),
              !.d6 = bitClear(t.d6, 7),
              !.d7 = bitClear(t.d7, 7),
              !.d8 = bitClear(t.d8, 7)]

\* sendPeerPacket(p0, p1, p2): the frame handed to LocoNet.send(), built from the
\* packet LnPacket points to (pkt) and the table (tbl)
sendPeerPacket(p0, p1, p2, pkt, tbl) ==
    PackHighBits(
        [command |-> "OPC_PEER_XFER", src |-> tbl[1], dst_l |-> pkt.src,
         dst_h |-> pkt.dst_h, pxct1 |-> 0, d1 |-> pkt.d1, d2 |-> pkt.d2,
         d3 |-> tbl[0], d4 |-> 0, pxct2 |-> 0, d5 |-> tbl[2],
         d6 |-> p0, d7 |-> p1, d8 |-> p2])

\* IsMyDestination with the exact match comparing the low address only
IsMyDestination_NoHigh(pkt, tbl) ==
    ~ (    (pkt.dst_l # 0 \/ pkt.d5 # 0)
        /\ (pkt.dst_l # ProgrammingAddr \/ pkt.d5 # tbl[2])
        /\ (pkt.dst_l # tbl[1]))

\* processPeerPacket(): "Check is my destination" (the frame goes on when this holds)
IsMyDestination(pkt, tbl) ==
    ~ (    (pkt.dst_l # 0 \/ pkt.d5 # 0)
        /\ (pkt.dst_l # ProgrammingAddr \/ pkt.d5 # tbl[2])
        /\ (pkt.dst_l # tbl[1] \/ pkt.d5 # tbl[2]))

\* bytes a read beyond svtable.data[50] can return: whatever the neighbouring
\* globals hold
StrayBytes == {0, 170}

\* svtable.data[i] as the read command evaluates it; stray is what memory holds
\* beyond the table
ReadData(i, stray) == IF i < TableSize THEN svtable[i] ELSE stray

\* ReadSV with the third byte read at r + 1 again
ReadSV_Slip(r, strays) ==
    <<ReadData(r, strays[1]), ReadData(r + 1, strays[2]), ReadData(r + 1, strays[2])>>

\* the read command's three arguments of sendPeerPacket(): svtable.data[r],
\* svtable.data[r + 1], svtable.data[r + 2]
ReadSV(r, strays) ==
    <<ReadData(r, strays[1]), ReadData(r + 1, strays[2]), ReadData(r + 2, strays[3])>>

\* the stray bytes a read starting at r can meet
StraysFor(r) ==
    {<<s0, s1, s2>> : s0 \in (IF r < TableSize THEN {0} ELSE StrayBytes),
                      s1 \in (IF r + 1 < TableSize THEN {0} ELSE StrayBytes),
                      s2 \in (IF r + 2 < TableSize THEN {0} ELSE StrayBytes)}

\* StoreSV storing payload byte 3 instead of payload byte 4
StoreSV_WrongByte(mem, u) == [mem EXCEPT ![u.d2] = u.d3]

\* StoreSV storing one register below the one named
StoreSV_OffByOne(mem, u) == [mem EXCEPT ![u.d2 - 1] = u.d4]

\* the write command's store into memory or EEPROM: mem[d2] = d4
StoreSV(mem, u) == [mem EXCEPT ![u.d2] = u.d4]

\* what LnPacket points to after a store beyond svtable.data[50]: the packet when
\* the store hit memory the program does not read again, or stray bytes when it hit
\* the pointer LnPacket, the global declared right after svtable
AfterStrayStore(pkt) ==
    {pkt} \cup {[pkt EXCEPT !.src = b, !.dst_h = b, !.d1 = b, !.d2 = b, !.d4 = b] :
                    b \in StrayBytes}

\* processPeerPacket() on the received packet pkt
processPeerPacket(pkt) ==
    IF pkt.command # "OPC_PEER_XFER" THEN
        /\ peerResult' = "notPeer"
        /\ LnPacket' = pkt
        /\ UNCHANGED <<svtable, eeprom, lastWritten>>
        /\ tx' = <<>>
    ELSE IF ~ IsMyDestination(pkt, svtable) THEN
        /\ peerResult' = "notMine"
        /\ LnPacket' = pkt
        /\ UNCHANGED <<svtable, eeprom, lastWritten>>
        /\ tx' = <<>>
    ELSE LET u == UnpackHighBits(pkt) IN
        IF u.d1 = 2 THEN
            /\ peerResult' = "read"
            /\ LnPacket' = u
            /\ UNCHANGED <<svtable, eeprom, lastWritten>>
            /\ \E strays \in StraysFor(u.d2) :
                    LET b == ReadSV(u.d2, strays) IN
                    tx' = <<sendPeerPacket(b[1], b[2], b[3], u, svtable)>>
        ELSE IF u.d1 = 1 THEN
            /\ peerResult' = "write"
            /\ IF u.d2 > 0 /\ u.d2 < TableSize THEN
                    /\ svtable' = StoreSV(svtable, u)
                    /\ eeprom' = StoreSV(eeprom, u)
                    /\ lastWritten' = {w \in lastWritten : w[1] # u.d2} \cup {<<u.d2, u.d4>>}
                    /\ LnPacket' = u
               ELSE IF u.d2 > 0 THEN
                    /\ svtable' = svtable
                    /\ eeprom' = StoreSV(eeprom, u)
                    /\ lastWritten' = lastWritten
                    /\ LnPacket' \in AfterStrayStore(u)
               ELSE
                    /\ UNCHANGED <<svtable, eeprom, lastWritten>>
                    /\ LnPacket' = u
            /\ tx' = <<sendPeerPacket(0, 0, LnPacket'.d4, LnPacket', svtable')>>
        ELSE
            /\ peerResult' = "unknown"
            /\ LnPacket' = u
            /\ UNCHANGED <<svtable, eeprom, lastWritten>>
            /\ tx' = <<>>

-----------------------------------------------------------------------------
(* Pins *)

\* digitalRead(pin): an output pin reads back what is driven, an input pin reads
\* the outside level lv
digitalRead(pin, lv) == IF pinDir[pin] = "OUTPUT" THEN pinOut[pin] ELSE lv[pin]

\* the digitalWrite() calls ws = <<pin, value>>, ..., applied in order to out
RECURSIVE ApplyWrites(_, _)
ApplyWrites(out, ws) ==
    IF ws = <<>> THEN out
    ELSE ApplyWrites([out EXCEPT ![Head(ws)[1]] = Head(ws)[2]], Tail(ws))

\* IsAssignedOutput without the test of the direction bit
IsAssignedOutput_AnyDirection(n, Address) ==
    svtable[Value1At(n)] = Address - 1

\* notifySwitchRequest(): pin n has the address and is set up as an output
IsAssignedOutput(n, Address) ==
    svtable[Value1At(n)] = Address - 1 /\ bitRead(svtable[CnfgAt(n)], 7) = 1

\* notifySwitchRequest(): "If pulse (always hardware reset) and Direction, only
\* listen ON message"
PulseCase(n, Output, Direction) ==
    /\ bitRead(svtable[CnfgAt(n)], 3) = 1
    /\ bitRead(svtable[Value2At(n)], 5) = Direction
    /\ Output # 0

\* PulseWrites without the digitalWrite(LOW) that ends the pulse
PulseWrites_NoLow(n) == <<<<PinOf(n), HIGH>>>>

\* notifySwitchRequest(): digitalWrite(HIGH), delay(150), digitalWrite(LOW)
PulseWrites(n) == <<<<PinOf(n), HIGH>>, <<PinOf(n), LOW>>>>

\* HwResetCase without the comparison of the direction
HwResetCase_AnyDirection(n, Direction) ==
    /\ bitRead(svtable[CnfgAt(n)], 3) = 0
    /\ bitRead(svtable[CnfgAt(n)], 2) = 1

\* notifySwitchRequest(): "If continue and hardware reset and Direction"
HwResetCase(n, Direction) ==
    /\ bitRead(svtable[CnfgAt(n)], 3) = 0
    /\ bitRead(svtable[CnfgAt(n)], 2) = 1
    /\ bitRead(svtable[Value2At(n)], 5) = Direction

HwResetWrites(n, Output) ==
    IF Output # 0 THEN <<<<PinOf(n), HIGH>>>> ELSE <<<<PinOf(n), LOW>>>>

\* notifySwitchRequest(): "If continue and software reset, one Direction ON turns
\* on and other Direction ON turns off"
SwResetCase(n, Output) ==
    /\ bitRead(svtable[CnfgAt(n)], 3) = 0
    /\ bitRead(svtable[CnfgAt(n)], 2) = 0
    /\ Output # 0

SwResetWrites(n, Direction) ==
    IF Direction = 0 THEN <<<<PinOf(n), HIGH>>>> ELSE <<<<PinOf(n), LOW>>>>

\* notifySwitchRequest(): the for loop from pin n on; the digitalWrite() calls it
\* makes. A branch that acts ends the loop (break), any other pin is passed over
RECURSIVE SwitchScan(_, _, _, _)
SwitchScan(n, Address, Output, Direction) ==
    IF n >= NumPins THEN <<>>
    ELSE IF IsAssignedOutput(n, Address) THEN
        IF PulseCase(n, Output, Direction) THEN PulseWrites(n)
        ELSE IF HwResetCase(n, Direction) THEN HwResetWrites(n, Output)
        ELSE IF SwResetCase(n, Output) THEN SwResetWrites(n, Direction)
        ELSE SwitchScan(n + 1, Address, Output, Direction)
    ELSE SwitchScan(n + 1, Address, Output, Direction)

\* notifySwitchRequest(Address, Output, Direction): Direction becomes 0 or 1 first
notifySwitchRequest(Address, Output, Direction) ==
    SwitchScan(0, Address, Output, IF Direction # 0 THEN 1 ELSE 0)

\* NoteLevel keeping the complement of the level read
NoteLevel_Inverted(v2, lvl) == bitWrite(v2, 4, 1 - lvl)

\* NoteLevel keeping the level in bit 5, the polarity bit
NoteLevel_Bit5(v2, lvl) == bitWrite(v2, 5, lvl)

\* setup() and loop(): bitWrite(value2, 4, digitalRead(pin)), the level kept in
\* bit 4 of value2
NoteLevel(v2, lvl) == bitWrite(v2, 4, lvl)

\* SensorReport sent after the level bit was updated
SensorReport_AfterUpdate(n, tbl) ==
    [command |-> "OPC_INPUT_REP", pin |-> n,
     in1 |-> tbl[Value1At(n)],
     in2 |-> bitWrite(tbl[Value2At(n)], 4, 1 - bitRead(tbl[Value2At(n)], 4))]

\* loop(): LocoNet.send(OPC_INPUT_REP, value1, value2) for pin n of table tbl
SensorReport(n, tbl) ==
    [command |-> "OPC_INPUT_REP", pin |-> n,
     in1 |-> tbl[Value1At(n)], in2 |-> tbl[Value2At(n)]]

\* setup(): the pinMode() of a pin with configuration byte cnfg
PinModeFor(cnfg) == IF bitRead(cnfg, 7) = 1 THEN "OUTPUT" ELSE "INPUT_PULLUP"

\* ResetAddress writing the two address defaults to each other's byte
ResetAddress_Swapped(mem) ==
    [mem EXCEPT ![0] = VERSION, ![1] = DefaultAddrHigh, ![2] = DefaultAddrLow]

\* setup(): version, low and high address set to their defaults, in memory and
\* in the EEPROM
ResetAddress(mem) ==
    [mem EXCEPT ![0] = VERSION, ![1] = DefaultAddrLow, ![2] = DefaultAddrHigh]

\* loop(): "Check inputs to inform", from pin n on. tbl is the table and sent the
\* packets sent so far; lv1 is the outside level at the first digitalRead() of a
\* pin and lv2 at the second. A sent report also records the pin it is about
RECURSIVE PollFrom(_, _, _, _, _)
PollFrom(n, tbl, sent, lv1, lv2) ==
    IF n >= NumPins THEN [tbl |-> tbl, sent |-> sent]
    ELSE IF /\ bitRead(tbl[CnfgAt(n)], 7) = 0
            /\ digitalRead(PinOf(n), lv1) # bitRead(tbl[Value2At(n)], 4)
    THEN PollFrom(n + 1,
                  [tbl EXCEPT ![Value2At(n)] =
                        NoteLevel(tbl[Value2At(n)], digitalRead(PinOf(n), lv2))],
                  Append(sent, SensorReport(n, tbl)),
                  lv1, lv2)
    ELSE PollFrom(n + 1, tbl, sent, lv1, lv2)

\* the outside level with the pins of set g changed
Toggled(lv, g) == [p \in HwPins |-> IF \E n \in g : PinOf(n) = p THEN 1 - lv[p] ELSE lv[p]]

-----------------------------------------------------------------------------
(* The program *)

Init ==
    /\ pc = "setup"
    /\ eeprom \in EepromImages
    /\ svtable = [i \in 0..(TableSize - 1) |-> 0]
    /\ pinDir = [p \in HwPins |-> "INPUT"]
    /\ pinOut = [p \in HwPins |-> LOW]
    /\ \E low \in SUBSET {n \in TogglePins : eeprom[0] = VERSION => eeprom[CnfgAt(n)] < 128} :
         level = [p \in HwPins |-> IF \E n \in low : PinOf(n) = p THEN LOW ELSE HIGH]
    /\ LnPacket = NoPacket
    /\ rx = NoPacket
    /\ tx = <<>>
    /\ pinWrites = <<>>
    /\ peerResult = "notCalled"
    /\ lastWritten = {}
    /\ lastSeen = <<>>
    /\ bootValid = "unset"
    /\ bootLevel = [n \in 0..(NumPins - 1) |-> {}]
    /\ codecIn = <<>>
    /\ codecWire = <<>>
    /\ codecOut = <<>>

\* setup()
Setup ==
    /\ pc = "setup"
    /\ pc' = "loop"
    /\ LET loaded == [i \in 0..(TableSize - 1) |-> eeprom[i]] IN
         IF loaded[0] # VERSION THEN
            /\ svtable' = ResetAddress(loaded)
            /\ eeprom' = ResetAddress(eeprom)
            /\ pinDir' = pinDir
         ELSE
            /\ eeprom' = eeprom
            /\ pinDir' = [p \in HwPins |->
                            LET n == CHOOSE m \in 0..(NumPins - 1) : PinOf(m) = p IN
                            PinModeFor(loaded[CnfgAt(n)])]
            /\ svtable' = [i \in 0..(TableSize - 1) |->
                            IF \E n \in 0..(NumPins - 1) :
                                    i = Value2At(n) /\ bitRead(loaded[CnfgAt(n)], 7) = 0
                            THEN NoteLevel(loaded[i], level[PinOf((i - 5) \div 3)])
                            ELSE loaded[i]]
    /\ bootValid' = (eeprom[0] = VERSION)
    /\ bootLevel' = [n \in 0..(NumPins - 1) |->
                        IF bitRead(eeprom[CnfgAt(n)], 7) = 0 THEN {level[PinOf(n)]}
                        ELSE {}]
    /\ UNCHANGED <<pinOut, level, LnPacket, rx, tx, pinWrites, peerResult, lastWritten,
                   lastSeen>>
    /\ UNCHANGED codecVars

\* loop(), first half, when LocoNet.receive() returns no packet
LoopNoPacket ==
    /\ pc = "loop"
    /\ pc' = "poll"
    /\ rx' = NoPacket
    /\ LnPacket' = NoPacket
    /\ tx' = <<>>
    /\ pinWrites' = <<>>
    /\ peerResult' = "notCalled"
    /\ UNCHANGED <<svtable, eeprom, pinDir, pinOut, level, lastWritten>>
    /\ UNCHANGED history
    /\ UNCHANGED codecVars

\* loop(), first half, on a switch request: processSwitchSensorMessage() calls
\* notifySwitchRequest() and returns true
LoopSwitchRequest(m) ==
    /\ pc = "loop"
    /\ pc' = "poll"
    /\ rx' = m
    /\ LnPacket' = m
    /\ tx' = <<>>
    /\ pinWrites' = notifySwitchRequest(m.Address, m.Output, m.Direction)
    /\ pinOut' = ApplyWrites(pinOut, pinWrites')
    /\ peerResult' = "notCalled"
    /\ UNCHANGED <<svtable, eeprom, pinDir, level, lastWritten>>
    /\ UNCHANGED history
    /\ UNCHANGED codecVars

\* loop(), first half, on a sensor, switch report or switch state message:
\* processSwitchSensorMessage() calls a callback that only prints and returns true
LoopInfoMessage(m) ==
    /\ pc = "loop"
    /\ pc' = "poll"
    /\ rx' = m
    /\ LnPacket' = m
    /\ tx' = <<>>
    /\ pinWrites' = <<>>
    /\ peerResult' = "notCalled"
    /\ UNCHANGED <<svtable, eeprom, pinDir, pinOut, level, lastWritten>>
    /\ UNCHANGED history
    /\ UNCHANGED codecVars

\* loop(), first half, on any other packet: processPeerPacket() runs
LoopPeerPacket(m) ==
    /\ pc = "loop"
    /\ pc' = "poll"
    /\ rx' = m
    /\ pinWrites' = <<>>
    /\ processPeerPacket(m)
    /\ UNCHANGED <<pinDir, pinOut, level>>
    /\ UNCHANGED history
    /\ UNCHANGED codecVars

\* the pins whose level the outside world sets: those the program does not drive
Listening == {n \in TogglePins : pinDir[PinOf(n)] # "OUTPUT"}

\* loop(), second half: the input scan. The outside level of the pins of g
\* changes between the two digitalRead() calls of the scan. loop() returns: the
\* receive buffer is the library's again and nothing reads it before the next
\* LocoNet.receive()
LoopPollInputs(g) ==
    /\ pc = "poll"
    /\ pc' = "loop"
    /\ LET r == PollFrom(0, svtable, <<>>, level, Toggled(level, g)) IN
         /\ svtable' = r.tbl
         /\ tx' = r.sent
    /\ level' = Toggled(level, g)
    /\ LnPacket' = NoPacket
    /\ rx' = NoPacket
    /\ pinWrites' = <<>>
    /\ peerResult' = "notCalled"
    /\ lastSeen' = [n \in 0..(NumPins - 1) |->
                        IF bitRead(svtable[CnfgAt(n)], 7) = 0
                        THEN {digitalRead(PinOf(n), level)}
                        ELSE {}]
    /\ bootLevel' = [n \in 0..(NumPins - 1) |-> {}]
    /\ UNCHANGED <<eeprom, pinDir, pinOut, lastWritten, bootValid>>
    /\ UNCHANGED codecVars

\* the outside world changes the level at pin n
PinChange(n) ==
    /\ pc # "setup"
    /\ n \in Listening
    /\ level' = Toggled(level, {n})
    /\ UNCHANGED <<svtable, eeprom, pinDir, pinOut, LnPacket, rx, tx, pinWrites, pc,
                   peerResult, lastWritten>>
    /\ UNCHANGED history
    /\ UNCHANGED codecVars

Next ==
    \/ Setup
    \/ LoopNoPacket
    \/ \E m \in SwitchRequests : LoopSwitchRequest(m)
    \/ \E m \in InfoMessages : LoopInfoMessage(m)
    \/ \E m \in PeerFrames : LoopPeerPacket(m)
    \/ \E g \in SUBSET Listening : LoopPollInputs(g)
    \/ \E n \in TogglePins : PinChange(n)

Spec == Init /\ [][Next]_vars

-----------------------------------------------------------------------------
(* The codec on its own: pack 8 payload bytes, then unpack them *)

CodecBytes == {0, 127, 128, 255}

InitCodec ==
    /\ codecIn \in [command : {"OPC_PEER_XFER"}, pxct1 : {0}, pxct2 : {0},
                    d1 : CodecBytes, d2 : CodecBytes, d3 : CodecBytes, d4 : CodecBytes,
                    d5 : CodecBytes, d6 : CodecBytes, d7 : CodecBytes, d8 : CodecBytes]
    /\ codecWire = NoPacket
    /\ codecOut = NoPacket
    /\ pc = "codec"
    /\ svtable = <<>>
    /\ eeprom = <<>>
    /\ pinDir = <<>>
    /\ pinOut = <<>>
    /\ level = <<>>
    /\ LnPacket = NoPacket
    /\ rx = NoPacket
    /\ tx = <<>>
    /\ pinWrites = <<>>
    /\ peerResult = "notCalled"
    /\ lastWritten = {}
    /\ lastSeen = <<>>
    /\ bootValid = "unset"
    /\ bootLevel = <<>>

\* the sender's side: sendPeerPacket() packs the high bits
CodecPack ==
    /\ codecWire = NoPacket
    /\ codecWire' = PackHighBits(codecIn)
    /\ UNCHANGED <<codecIn, codecOut>>
    /\ UNCHANGED mainVars

\* the receiver's side: processPeerPacket() restores the high bits
CodecUnpack ==
    /\ codecWire # NoPacket
    /\ codecOut = NoPacket
    /\ codecOut' = UnpackHighBits(codecWire)
    /\ UNCHANGED <<codecIn, codecWire>>
    /\ UNCHANGED mainVars

NextCodec == CodecPack \/ CodecUnpack

SpecCodec == InitCodec /\ [][NextCodec]_vars

-----------------------------------------------------------------------------
(* Vocabulary of the properties *)

Pins == 0..(NumPins - 1)

\* the 8 payload bytes of a frame
Payload(f) == <<f.d1, f.d2, f.d3, f.d4, f.d5, f.d6, f.d7, f.d8>>

\* the three data bytes of a reply, high bits restored
ReplyData(f) == LET t == UnpackHighBits(f) IN <<t.d6, t.d7, t.d8>>

\* the address match as the protocol states it
AddressedToUs(p, tbl) ==
    \/ p.dst_l = 0 /\ p.d5 = 0
    \/ p.dst_l = 127 /\ p.d5 = tbl[2]
    \/ p.dst_l = tbl[1] /\ p.d5 = tbl[2]

\* p is a peer transfer frame that a module with table tbl accepts, and its
\* restored payload byte 1 is cmd
AcceptedCommand(p, tbl, cmd) ==
    /\ p.command = "OPC_PEER_XFER"
    /\ AddressedToUs(p, tbl)
    /\ UnpackHighBits(p).d1 = cmd

\* restored payload bytes 2 and 4 of a received frame
RegOf(p) == UnpackHighBits(p).d2
ValOf(p) == UnpackHighBits(p).d4

IsValue2Reg(r) == \E n \in Pins : r = Value2At(n)

-----------------------------------------------------------------------------
(* Properties of the SV protocol *)

\* C1, as claimed: a read starting at register r in 1..50 returns, as its first
\* data byte, the value V of the last accepted write to r, whatever happened in
\* between.
C1_AsClaimed ==
    \A w \in lastWritten :
        (peerResult = "read" /\ LnPacket.d2 = w[1]) => ReplyData(tx[1])[1] = w[2]

\* C1, amended: a read starting at register r in 1..50 returns, as its first data
\* byte, the value V of the last accepted write to r, except that for the value2
\* register of a pin (r = 5 + 3n) bit 4 of the byte may differ from V: the input
\* scan keeps the last observed level there.
C1_WriteThenRead ==
    \A w \in lastWritten :
        (peerResult = "read" /\ LnPacket.d2 = w[1]) =>
            IF IsValue2Reg(w[1])
            THEN bitClear(ReplyData(tx[1])[1], 4) = bitClear(w[2], 4)
            ELSE ReplyData(tx[1])[1] = w[2]

\* a read of pin 0's value2 after 144 was written to it and the input scan
\* cleared bit 4
C1_Witness ==
    /\ peerResult = "read"
    /\ LnPacket.d2 = 5
    /\ <<5, 144>> \in lastWritten
    /\ ReplyData(tx[1]) [1] = 128

\* C2: an accepted read frame with start register r <= 48 sends exactly one reply,
\* whose data bytes are table[r], table[r+1], table[r+2], and changes no byte of
\* the table or the EEPROM.
C2_ReadSV ==
    [][(pc = "loop" /\ AcceptedCommand(rx', svtable, 2) /\ RegOf(rx') <= 48) =>
            /\ Len(tx') = 1
            /\ ReplyData(tx'[1]) = <<svtable[RegOf(rx')], svtable[RegOf(rx') + 1],
                                     svtable[RegOf(rx') + 2]>>
            /\ svtable' = svtable
            /\ eeprom' = eeprom]_vars

\* a read starting at 3 has returned the three bytes of pin 0, which differ
C2_Witness ==
    /\ peerResult = "read"
    /\ LnPacket.d2 = 3
    /\ Len(tx) = 1
    /\ ReplyData(tx[1]) = <<svtable[3], svtable[4], svtable[5]>>
    /\ svtable[3] # svtable[4]
    /\ svtable[4] # svtable[5]

\* C3: an SV access outside 0..50 fails with a BoundsError: a write frame with
\* register r > 50 changes no byte of the table and none of the EEPROM, and a read
\* frame with start register r > 48 sends no reply with bytes from beyond the table.
C3_BoundsError ==
    [][/\ (pc = "loop" /\ AcceptedCommand(rx', svtable, 1) /\ RegOf(rx') > 50) =>
            (svtable' = svtable /\ eeprom' = eeprom)
       /\ (pc = "loop" /\ AcceptedCommand(rx', svtable, 2) /\ RegOf(rx') > 48) =>
            tx' = <<>>]_vars

\* C4: a peer transfer frame passes the address check exactly when it is a
\* broadcast, or names the programming address and our high address, or names our
\* low and high address, as the table holds them when the frame arrives.
C4_AddressMatch ==
    [][(pc = "loop" /\ rx'.command = "OPC_PEER_XFER") =>
            ((peerResult' # "notMine") <=> AddressedToUs(rx', svtable))]_vars

\* a frame for the default address was rejected after an SV write had changed the
\* module's low address
C4_Witness ==
    /\ peerResult = "notMine"
    /\ rx.dst_l = DefaultAddrLow
    /\ rx.d5 = DefaultAddrHigh
    /\ svtable[1] # DefaultAddrLow

\* C5: packing the high bits of 8 payload bytes as sendPeerPacket() does and
\* restoring them as processPeerPacket() does yields the 8 bytes again.
C5_RoundTrip ==
    codecOut # NoPacket => Payload(codecOut) = Payload(codecIn)

\* a round trip of bytes with and without bit 7
C5_Witness ==
    /\ codecOut # NoPacket
    /\ Payload(codecIn) = <<128, 0, 255, 127, 255, 128, 0, 127>>
    /\ Payload(codecOut) = Payload(codecIn)
    /\ codecWire.pxct1 = 5

-----------------------------------------------------------------------------
(* Properties of the switch request handling *)

IsOutput(n) == bitRead(svtable[CnfgAt(n)], 7) = 1
IsPulse(n) == bitRead(svtable[CnfgAt(n)], 3) = 1
IsHwReset(n) == bitRead(svtable[CnfgAt(n)], 3) = 0 /\ bitRead(svtable[CnfgAt(n)], 2) = 1
IsSwReset(n) == bitRead(svtable[CnfgAt(n)], 3) = 0 /\ bitRead(svtable[CnfgAt(n)], 2) = 0
Polarity(n) == bitRead(svtable[Value2At(n)], 5)

\* the first half of loop() has just handled a switch request (it is in rx; the
\* table is as it was during the handling)
SwitchHandled == pc = "poll" /\ rx.command = "OPC_SW_REQ"

ReqOn == rx.Output # 0
ReqDir == IF rx.Direction # 0 THEN 1 ELSE 0

\* pin n is an output with the address the request names
Matches(n) == IsOutput(n) /\ svtable[Value1At(n)] = rx.Address - 1

\* pin n is the only output pin with the address the request names
OnlyMatch(n) == Matches(n) /\ \A m \in Pins \ {n} : ~ Matches(m)

\* the levels the handling wrote to pin n, in order
WritesTo(n) ==
    LET ToPin(w) == w[1] = PinOf(n)
        ws == SelectSeq(pinWrites, ToPin)
    IN  [i \in 1..Len(ws) |-> ws[i][2]]

\* C7: for the only output pin with the request's address, configured pulse with
\* polarity P: a request with on and direction = P writes high, then low, to the
\* pin and leaves it low; any other request writes nothing to the pin.
C7_Pulse ==
    \A n \in Pins :
        (SwitchHandled /\ OnlyMatch(n) /\ IsPulse(n)) =>
            IF ReqOn /\ ReqDir = Polarity(n)
            THEN WritesTo(n) = <<HIGH, LOW>> /\ pinOut[PinOf(n)] = LOW
            ELSE WritesTo(n) = <<>>

\* a pulse on a pin that alone has the address
C7_Witness ==
    \E n \in Pins :
        /\ SwitchHandled /\ OnlyMatch(n) /\ IsPulse(n)
        /\ ReqOn /\ ReqDir = Polarity(n)
        /\ pinWrites = <<<<PinOf(n), HIGH>>, <<PinOf(n), LOW>>>>

\* C8: for the only output pin with the request's address, configured continuous
\* with software reset and polarity P: a request with on and direction = P drives
\* the pin high, one with on and direction # P drives it low, one with off writes
\* nothing.
C8_SoftwareToggle ==
    \A n \in Pins :
        (SwitchHandled /\ OnlyMatch(n) /\ IsSwReset(n)) =>
            IF ReqOn
            THEN IF ReqDir = Polarity(n)
                 THEN WritesTo(n) = <<HIGH>> /\ pinOut[PinOf(n)] = HIGH
                 ELSE WritesTo(n) = <<LOW>> /\ pinOut[PinOf(n)] = LOW
            ELSE WritesTo(n) = <<>>

\* C9: for the only output pin with the request's address, configured continuous
\* with hardware reset and polarity P: a request with direction = P sets the pin
\* high when on and low when off; a request with direction # P writes nothing.
C9_HardwareReset ==
    \A n \in Pins :
        (SwitchHandled /\ OnlyMatch(n) /\ IsHwReset(n)) =>
            IF ReqDir = Polarity(n)
            THEN /\ WritesTo(n) = <<IF ReqOn THEN HIGH ELSE LOW>>
                 /\ pinOut[PinOf(n)] = (IF ReqOn THEN HIGH ELSE LOW)
            ELSE WritesTo(n) = <<>>

\* an off request for the pin's direction has written low to the pin
C9_Witness ==
    \E n \in Pins :
        /\ SwitchHandled /\ OnlyMatch(n) /\ IsHwReset(n)
        /\ ~ ReqOn /\ ReqDir = Polarity(n)
        /\ pinWrites = <<<<PinOf(n), LOW>>>>

\* the policy of pin n reacts to the request
Reacts(n) ==
    \/ IsPulse(n) /\ ReqOn /\ ReqDir = Polarity(n)
    \/ IsHwReset(n) /\ ReqDir = Polarity(n)
    \/ IsSwReset(n) /\ ReqOn

\* C10, as claimed: only the lowest-index output pin with the request's address is
\* considered; no pin with a greater index is driven, whether or not that pin's
\* policy reacts.
C10_AsClaimed ==
    \A n \in Pins :
        (SwitchHandled /\ Matches(n) /\ \A m \in 0..(n - 1) : ~ Matches(m)) =>
            \A k \in Pins : k > n => WritesTo(k) = <<>>

\* C10, amended: the request drives only the lowest-index output pin with the
\* request's address whose policy reacts to it; output pins with that address and
\* a policy that does not react are passed over, and no pin after the reacting
\* one is driven.
C10_FirstReacting ==
    SwitchHandled =>
        \A n \in Pins :
            IF Matches(n) /\ Reacts(n) /\ \A m \in 0..(n - 1) : ~ (Matches(m) /\ Reacts(m))
            THEN WritesTo(n) # <<>>
            ELSE WritesTo(n) = <<>>

\* pin 0 has the address but its polarity is the other one, and pin 1 was pulsed
C10_Witness ==
    /\ SwitchHandled
    /\ Matches(0) /\ ~ Reacts(0)
    /\ Matches(1) /\ Reacts(1)
    /\ pinWrites = <<<<PinOf(1), HIGH>>, <<PinOf(1), LOW>>>>

-----------------------------------------------------------------------------
(* Properties of startup, the dispatcher, the replies and the input scan *)

\* C12 (version mismatch on load): when the loaded byte 0 is not VERSION,
\* setup() leaves version = VERSION, low address = 81 and high address = 1 in
\* memory and in EEPROM bytes 0..2; memory bytes 3..50 are exactly the bytes
\* loaded and EEPROM bytes 3..50 are not touched.
C12_VersionMismatch ==
    [][(pc = "setup" /\ eeprom[0] # VERSION) =>
         /\ svtable'[0] = VERSION /\ svtable'[1] = 81 /\ svtable'[2] = 1
         /\ eeprom'[0] = VERSION /\ eeprom'[1] = 81 /\ eeprom'[2] = 1
         /\ \A i \in 3..(TableSize - 1) :
              svtable'[i] = eeprom[i] /\ eeprom'[i] = eeprom[i]
         /\ \A i \in TableSize..MaxReg : eeprom'[i] = eeprom[i]]_vars

\* setup() has just run on an EEPROM that did not hold VERSION, and a pin
\* entry it loaded is not zero
C12_Witness ==
    /\ pc = "loop"
    /\ bootValid = FALSE
    /\ lastSeen = <<>>
    /\ rx = NoPacket
    /\ svtable[0] = VERSION /\ eeprom[0] = VERSION
    /\ svtable[CnfgAt(0)] = 31 /\ svtable[Value2At(0)] = 16

\* the reports of pin n among the packets sent
ReportsOf(n, sent) == Cardinality({i \in 1..Len(sent) : sent[i].pin = n})

\* C11 (input edge reporting): in any run, with SV writes processed and levels
\* changing at any instant, also between the two reads of one scan, a pin that
\* two consecutive input scans read as an input gets exactly one report from
\* the second scan when the level it read differs from the level the first
\* scan read, and no report when the two levels are equal.
C11_AsClaimed ==
    [][(pc = "poll" /\ pc' = "loop") =>
         \A n \in Pins :
            (lastSeen # <<>> /\ lastSeen[n] # {} /\ lastSeen'[n] # {}) =>
               ReportsOf(n, tx') = (IF lastSeen'[n] # lastSeen[n] THEN 1 ELSE 0)]_vars

\* payload byte 1 of a received frame with its bit 7 taken from bit 0 of pxct1
RestoredCommand(p) == p.d1 + 128 * (p.pxct1 % 2)

\* a frame the switch/sensor decoder does not handle and that is no peer
\* transfer, or fails the address match, or carries a command other than 1 and 2
Dropped(p, tbl) ==
    \/ p.command \notin {"NULL", "OPC_SW_REQ", "OPC_INPUT_REP", "OPC_SW_REP",
                         "OPC_SW_STATE", "OPC_PEER_XFER"}
    \/ /\ p.command = "OPC_PEER_XFER"
       /\ ~ AddressedToUs(p, tbl) \/ RestoredCommand(p) \notin {1, 2}

\* C13 (silent drop): a received frame that the switch/sensor decoder does not
\* handle and that is not a peer transfer frame, or fails the address match, or
\* whose restored payload byte 1 is neither 1 nor 2, gets no reply and changes
\* no byte of the table, writes no EEPROM byte and writes no pin.
C13_SilentDrop ==
    [][(pc = "loop" /\ Dropped(rx', svtable)) =>
            /\ tx' = <<>>
            /\ svtable' = svtable
            /\ eeprom' = eeprom
            /\ pinWrites' = <<>>
            /\ pinOut' = pinOut
            /\ pinDir' = pinDir]_vars

\* a broadcast frame with command 129 (1 on the wire, bit 0 of pxct1 set) has
\* just been dropped
C13_Witness ==
    /\ pc = "poll"
    /\ rx.command = "OPC_PEER_XFER"
    /\ rx.dst_l = 0 /\ rx.d5 = 0
    /\ rx.d1 = 1 /\ rx.pxct1 % 2 = 1
    /\ peerResult = "unknown"
    /\ tx = <<>>

\* bit 7 of a byte
HighBit(b) == bitRead(b, 7)

\* the peer transfer frames among the packets just sent
Replies == {i \in 1..Len(tx) : tx[i].command = "OPC_PEER_XFER"}

\* C14 (7-bit-clean replies): in every reply, after any sequence of accepted SV
\* frames, the source byte, the two destination bytes, the two control bytes
\* and the 8 payload bytes are below 128, and each control byte uses its low 4
\* bits only, which hold the bit 7 taken off the payload bytes: command,
\* register, version and 0 in the first, high address and the three result
\* bytes in the second.
C14_AsClaimed ==
    \A i \in Replies :
        LET f == tx[i] IN
        /\ f.src < 128 /\ f.dst_l < 128 /\ f.dst_h < 128
        /\ f.pxct1 < 16 /\ f.pxct2 < 16
        /\ \A k \in 1..8 : Payload(f)[k] < 128
        /\ f.pxct1 = HighBit(LnPacket.d1) + 2 * HighBit(LnPacket.d2)
                        + 4 * HighBit(svtable[0])
        /\ f.pxct2 % 2 = HighBit(svtable[2])
        /\ peerResult = "write" => f.pxct2 \div 2 = 4 * HighBit(LnPacket.d4)
        /\ (peerResult = "read" /\ LnPacket.d2 <= 48) =>
              f.pxct2 \div 2 = HighBit(svtable[LnPacket.d2])
                                + 2 * HighBit(svtable[LnPacket.d2 + 1])
                                + 4 * HighBit(svtable[LnPacket.d2 + 2])

C16_WriteSV ==
    [][(pc = "loop" /\ AcceptedCommand(rx', svtable, 1)
            /\ RegOf(rx') >= 1 /\ RegOf(rx') <= 50) =>
         /\ svtable'[RegOf(rx')] = ValOf(rx')
         /\ eeprom'[RegOf(rx')] = ValOf(rx')
         /\ \A i \in 0..(TableSize - 1) : i # RegOf(rx') => svtable'[i] = svtable[i]
         /\ \A i \in 0..MaxReg : i # RegOf(rx') => eeprom'[i] = eeprom[i]
         /\ pinOut' = pinOut
         /\ pinDir' = pinDir
         /\ pinWrites' = <<>>]_vars

\* the write of 0 to pin 0's configuration byte has just been handled: table and
\* EEPROM hold 0 where they held an output's configuration, and the pin is
\* still an output
C16_Witness ==
    /\ pc = "poll"
    /\ peerResult = "write"
    /\ RegOf(rx) = CnfgAt(0) /\ ValOf(rx) = 0
    /\ svtable[CnfgAt(0)] = 0 /\ eeprom[CnfgAt(0)] = 0
    /\ svtable[Value1At(0)] = 7 /\ eeprom[Value1At(0)] = 7
    /\ pinDir[PinOf(0)] = "OUTPUT"

\* pin n is an input in table tbl
InputIn(tbl, n) == bitRead(tbl[CnfgAt(n)], 7) = 0

\* the first input scan after setup() is about to end
FirstScan == pc = "poll" /\ pc' = "loop" /\ lastSeen = <<>>

\* C17, as claimed: after setup(), for every pin configured as input, bit 4 of
\* value2 is the level the pin had at setup(); so the first input scan sends
\* no report for such a pin when it meets the level the pin had at setup().
C17_AsClaimed ==
    [][/\ pc = "setup" =>
            \A n \in Pins : InputIn(svtable', n) =>
                bitRead(svtable'[Value2At(n)], 4) = level[PinOf(n)]
       /\ FirstScan =>
            \A n \in Pins :
                (bootLevel[n] # {} /\ bootLevel[n] = {digitalRead(PinOf(n), level)}) =>
                    ReportsOf(n, tx') = 0]_vars

\* C17, amended: after a setup() that found VERSION in the EEPROM, for every pin
\* configured as input, bit 4 of value2 is the level the pin had at setup(); so
\* the first input scan sends no report for such a pin when it meets the level
\* the pin had at setup() and the frame handled before the scan was not an
\* accepted write to the pin's value2 register. A setup() that did not find
\* VERSION leaves bit 4 as loaded.
C17_NoSpuriousFirstReport ==
    [][/\ (pc = "setup" /\ eeprom[0] = VERSION) =>
            \A n \in Pins : InputIn(svtable', n) =>
                bitRead(svtable'[Value2At(n)], 4) = level[PinOf(n)]
       /\ (pc = "setup" /\ eeprom[0] # VERSION) =>
            \A n \in Pins : svtable'[Value2At(n)] = eeprom[Value2At(n)]
       /\ (FirstScan /\ bootValid = TRUE) =>
            \A n \in Pins :
                (/\ bootLevel[n] # {}
                 /\ bootLevel[n] = {digitalRead(PinOf(n), level)}
                 /\ ~ (peerResult = "write" /\ RegOf(rx) = Value2At(n))) =>
                    ReportsOf(n, tx') = 0]_vars

\* the first input scan is about to run on pin 0, an input whose EEPROM byte
\* has bit 4 set, that was low at setup() and is low now: setup() cleared the
\* bit in memory
C17_Witness ==
    /\ pc = "poll"
    /\ lastSeen = <<>>
    /\ bootValid = TRUE
    /\ bootLevel[0] = {LOW}
    /\ level[PinOf(0)] = LOW
    /\ InputIn(svtable, 0)
    /\ eeprom[Value2At(0)] = 16
    /\ svtable[Value2At(0)] = 0

\* bytes a and b of offset i agree, but for bit 4 where i is a value2 offset
AgreeAt(i, a, b) ==
    \/ a = b
    \/ i >= Value2At(0) /\ (i - Value2At(0)) % 3 = 0 /\ bitClear(a, 4) = bitClear(b, 4)

\* C18 (memory/store agreement): in every state after setup(), whatever SV
\* writes, SV reads, switch requests and input scans have run, the table in
\* memory and the EEPROM agree on every bit of offsets 0..50 except bit 4 of
\* each pin's value2; setup() and the input scan change that bit in memory
\* only: the scan writes no EEPROM byte, setup() writes no EEPROM byte of a pin
\* and none at all when it changes the bit.
C18_MemoryStoreAgreement ==
    [][/\ pc' # "setup" =>
            \A i \in 0..(TableSize - 1) : AgreeAt(i, svtable'[i], eeprom'[i])
       /\ (pc = "poll" /\ pc' = "loop") =>
            /\ eeprom' = eeprom
            /\ \A i \in 0..(TableSize - 1) : AgreeAt(i, svtable'[i], svtable[i])
       /\ (pc = "setup" /\ pc' = "loop") =>
            /\ \A i \in 3..(TableSize - 1) :
                    AgreeAt(i, svtable'[i], eeprom[i]) /\ eeprom'[i] = eeprom[i]
            /\ (\E n \in Pins : svtable'[Value2At(n)] # eeprom[Value2At(n)]) =>
                    eeprom' = eeprom]_vars

\* the table and the EEPROM differ in bit 4 of pin 0's value2 after an SV write
\* of 144 to it: the input scan has cleared the bit in memory only
C18_Witness ==
    /\ pc = "loop"
    /\ <<Value2At(0), 144>> \in lastWritten
    /\ eeprom[Value2At(0)] = 144
    /\ svtable[Value2At(0)] = 128

\* C19 (hardware direction follows configuration): at the start of every loop
\* iteration each of the 16 pins is an output in hardware exactly when bit 7 of
\* its configuration byte is set, and an input with pull-up otherwise; also
\* after a setup() that found another version and after an SV write to a
\* configuration byte.
C19_AsClaimed ==
    pc = "loop" =>
        \A n \in Pins :
            pinDir[PinOf(n)] = (IF InputIn(svtable, n) THEN "INPUT_PULLUP" ELSE "OUTPUT")

\* C20 (report content): every report the input scan sends for pin n carries
\* the pin's value1 and value2 as they were before the scan updated the level
\* bit, so bit 4 of the report's second byte is the level recorded before, the
\* complement of the level whose detection caused the report; after the report
\* bit 4 of value2 holds the level read at the update, and the scan changes no
\* other bit of the table.
C20_ReportContent ==
    [][(pc = "poll" /\ pc' = "loop") =>
         /\ \A i \in 1..Len(tx') :
               LET f == tx'[i]
                   n == f.pin
               IN  /\ f.command = "OPC_INPUT_REP"
                   /\ f.in1 = svtable[Value1At(n)]
                   /\ f.in2 = svtable[Value2At(n)]
                   /\ bitRead(f.in2, 4) = bitRead(svtable[Value2At(n)], 4)
                   /\ bitRead(f.in2, 4) = 1 - digitalRead(PinOf(n), level)
                   /\ svtable'[Value2At(n)] =
                         bitWrite(svtable[Value2At(n)], 4, digitalRead(PinOf(n), level'))
         /\ \A j \in 0..(TableSize - 1) :
               svtable'[j] # svtable[j] => \E i \in 1..Len(tx') : j = Value2At(tx'[i].pin)]_vars

\* the input scan has just reported pin 0: the report carries value2 with bit 4
\* clear, the table holds it with bit 4 set
C20_Witness ==
    /\ pc = "loop"
    /\ Len(tx) = 1
    /\ tx[1].pin = 0
    /\ tx[1].in1 = svtable[Value1At(0)]
    /\ bitRead(tx[1].in2, 4) = 0
    /\ bitRead(svtable[Value2At(0)], 4) = 1
    /\ lastSeen[0] = {HIGH}

====
